---- MODULE Spec2Model ----
(***************************************************************************)
(* A model of one run of moviescraper: main() loads the theater            *)
(* configuration from the environment, TheaterScraper.__init__ discovers   *)
(* candidate endpoints with a headless browser (browser.get_json_requests),*)
(* probes them for the movie catalog (_fetch_movie_data), extracts nodes   *)
(* and ids, and get_schedule posts to the schedule endpoint.               *)
(*                                                                         *)
(* The environment, the browser and the network are the inputs: every      *)
(* outcome they can produce is a nondeterministic choice.  HTTP response   *)
(* bodies are JSON objects, modelled as tagged values.                     *)
(***************************************************************************)
EXTENDS Integers, Sequences, FiniteSets, TLC

(* ----------------------------- bounds --------------------------------- *)

\* Most network requests the browser session observes during a page load.
MaxRequests == 3

\* Most POSTs the model lets a run issue (caps the counter).
MaxPosts == 2

(* --------------------------- JSON values ------------------------------ *)

\* Python None / JSON null.
JNull == [type |-> "null"]

\* A JSON object: a set of <<key, value>> pairs, at most one per key.
JDict(items) == [type |-> "dict", items |-> items]

\* A JSON array.
JList(elems) == [type |-> "list", elems |-> elems]

\* A JSON string.
JStr(s) == [type |-> "str", s |-> s]

\* key in d  (d a dict)
HasKey(d, k) == \E p \in d.items : p[1] = k

\* d[k]  (d a dict that has k)
Item(d, k) == (CHOOSE p \in d.items : p[1] = k)[2]

\* dict.get(k, default): the value under k, also when that value is None.
DictGet(d, k, default) == IF HasKey(d, k) THEN Item(d, k) ELSE default

(* ------------------------------- URLs --------------------------------- *)

\* A URL is the sequence of its characters, so that str.endswith and the
\* split into path and query are computed, not assumed.
DotJson == <<".", "j", "s", "o", "n">>

\* Sample request URLs (scheme and host left out).
UrlPlain  == <<"/", "a">> \o DotJson                           \* /a.json
UrlQuery  == <<"/", "c">> \o DotJson \o <<"?", "v", "=", "1">> \* /c.json?v=1
UrlScript == <<"/", "d", ".", "j", "s">>                         \* /d.js
UrlInQuery == <<"/", "e", "?", "f", "=", "x">> \o DotJson       \* /e?f=x.json

Urls == {UrlPlain, UrlQuery, UrlScript, UrlInQuery}

\* str.endswith(suffix)
EndsWith(s, suffix) ==
    /\ Len(s) >= Len(suffix)
    /\ SubSeq(s, Len(s) - Len(suffix) + 1, Len(s)) = suffix

\* The path component of a URL: what precedes the first "?" or "#".
PathOf(url) ==
    LET cut == {i \in 1..Len(url) : url[i] \in {"?", "#"}}
    IN  IF cut = {} THEN url
        ELSE SubSeq(url, 1, (CHOOSE i \in cut : \A j \in cut : i <= j) - 1)

\* A filter that looks at the path component only.
PathEndsWithJson(url) == EndsWith(PathOf(url), DotJson)

\* request.url.endswith(".json"): the test get_json_requests applies.
IsJsonRequest(url) == EndsWith(url, DotJson)

\* The endpoints list built by the loop over driver.requests.
JsonEndpoints(reqs) == SelectSeq(reqs, IsJsonRequest)

\* Every sequence of at most n elements of S.
SeqsUpTo(S, n) == UNION {[1..k -> S] : k \in 0..n}

\* What driver.requests can hold when it is read.
ObservedRequests == SeqsUpTo(Urls, MaxRequests)

(* --------------------------- configuration ---------------------------- *)

required_vars == <<"SHOWTIMES_URL", "WEBSITE_ID", "THEATER_ID", "SCHEDULE_ENDPOINT">>

RequiredSet == {required_vars[i] : i \in 1..Len(required_vars)}

\* The value a key has when the environment file sets it to something.
EnvValue(var) ==
    CASE var = "SHOWTIMES_URL"     -> "https://theater.example/showtimes"
      [] var = "WEBSITE_ID"        -> "S0meAlPh@numER1C+hing"
      [] var = "THEATER_ID"        -> "ABC123"
      [] var = "SCHEDULE_ENDPOINT" -> "https://theater.example/api/schedule"

\* The environments: each required key is unset, set to "", or set to a value.
\* An environment is a set of <<key, value>> pairs.
Environments ==
    {UNION {IF f[k] = "unset" THEN {}
            ELSE {<<k, IF f[k] = "empty" THEN "" ELSE EnvValue(k)>>} : k \in RequiredSet}
       : f \in [RequiredSet -> {"unset", "empty", "set"}]}

\* os.getenv(var) returned a value (is not None).
EnvHas(e, var) == \E p \in e : p[1] = var

\* os.getenv(var, default)
Getenv(e, var, default) ==
    IF EnvHas(e, var) THEN (CHOOSE p \in e : p[1] = var)[2] ELSE default

\* not os.getenv(var): None and "" are both falsy.
EnvFalsy(e, var) == ~EnvHas(e, var) \/ Getenv(e, var, "") = ""

\* A version that reports the first missing variable only.
FirstMissingVar(e) ==
    LET all == SelectSeq(required_vars, LAMBDA var : EnvFalsy(e, var))
    IN  IF all = <<>> THEN <<>> ELSE <<all[1]>>

\* missing_vars = [var for var in required_vars if not os.getenv(var)]
MissingVars(e) == SelectSeq(required_vars, LAMBDA var : EnvFalsy(e, var))

\* cls(showtimes_url=..., website_id=..., theater_id=..., schedule_endpoint=...)
MakeConfig(e) ==
    [type              |-> "config",
     showtimes_url     |-> Getenv(e, "SHOWTIMES_URL", ""),
     website_id        |-> Getenv(e, "WEBSITE_ID", ""),
     theater_id        |-> Getenv(e, "THEATER_ID", ""),
     schedule_endpoint |-> Getenv(e, "SCHEDULE_ENDPOINT", "")]

(* ------------------------------ errors -------------------------------- *)

NoError == [kind |-> "none", stage |-> "none"]

Raised(kind, stage) == [kind |-> kind, stage |-> stage]

(* --------------------------- HTTP responses --------------------------- *)

\* A movie node of the catalog.
MovieNode(id, title) == JDict({<<"id", JStr(id)>>, <<"title", JStr(title)>>})

\* Values found under data.allMovie: a catalog with one node, an empty
\* catalog, and an object without "nodes".
Catalogs ==
    {JDict({<<"nodes", JList(<<MovieNode("42", "Movie A")>>)>>}),
     JDict({<<"nodes", JList(<<>>)>>}),
     JDict({})}

\* Bodies a candidate endpoint can answer with.
CatalogBodies ==
    {JDict({}),
     JDict({<<"data", JNull>>}),
     JDict({<<"data", JDict({})>>}),
     JDict({<<"data", JDict({<<"allMovie", JNull>>})>>})}
    \cup {JDict({<<"data", JDict({<<"allMovie", c>>})>>}) : c \in Catalogs}

Showing == JDict({<<"showtime", JStr("2025-06-01T19:00:00")>>})

\* Bodies the schedule endpoint can answer with, for theater id tid.
ScheduleBodies(tid) ==
    {JDict({}),
     JDict({<<"OTHER", JDict({<<"schedule", JList(<<Showing>>)>>})>>}),
     JDict({<<tid, JNull>>}),
     JDict({<<tid, JDict({})>>}),
     JDict({<<tid, JDict({<<"schedule", JNull>>})>>}),
     JDict({<<tid, JDict({<<"schedule", JList(<<>>)>>})>>}),
     JDict({<<tid, JDict({<<"schedule", JList(<<Showing>>)>>})>>})}

\* What one HTTP request can come back with: a network-level error
\* (connection failure, timeout) or a response with a status and a body.
NetworkError == [kind |-> "neterr", status |-> 0, body |-> JNull]

HttpResponse(status, body) == [kind |-> "http", status |-> status, body |-> body]

ErrorStatuses == {500}

GetResponses ==
    {NetworkError}
    \cup {HttpResponse(st, JDict({})) : st \in ErrorStatuses}
    \cup {HttpResponse(200, b) : b \in CatalogBodies}

PostResponses(tid) ==
    {NetworkError}
    \cup {HttpResponse(st, JDict({})) : st \in ErrorStatuses}
    \cup {HttpResponse(200, b) : b \in ScheduleBodies(tid)}

\* requests.get/post raised, or response.raise_for_status() raises:
\* a RequestException either way.
TransportFailure(r) == r.kind = "neterr" \/ (r.status >= 400 /\ r.status < 600)

\* The tuple (endpoint, movie_data) that _fetch_movie_data returns.
MovieData(endpoint, data) == [type |-> "tuple", endpoint |-> endpoint, data |-> data]

\* "allMovie" in data and data.get("allMovie") is not None   (data a dict)
HasMarker(data) == HasKey(data, "allMovie") /\ DictGet(data, "allMovie", JNull) # JNull

(* ------------------------------- state -------------------------------- *)

VARIABLES
    env,          \* the process environment after load_dotenv
    pc,           \* where the run is
    error,        \* the exception that ended the run, or NoError
    message,      \* the keys the configuration error message names
    config,       \* the TheaterConfig, or JNull
    driver,       \* get_json_requests: driver is assigned (not None)
    running,      \* a browser process is alive
    launches,     \* browser processes started
    quitCalls,    \* calls of driver.quit()
    bfail,        \* the browser step that threw, or "none"
    requests,     \* driver.requests as read
    pending,      \* get_json_requests: the value its return statement set
    discovery,    \* get_json_requests: "notcalled", "running", "returned", "raised"
    candidates,   \* the list get_json_requests returned
    replies,      \* what each candidate answers when it is sent a GET
    idx,          \* _fetch_movie_data: position of the next candidate
    probes,       \* the GETs sent, in order: <<endpoint, response>>
    movie_data,   \* self.movie_data: MovieData(endpoint, allMovie), or JNull
    movie_nodes,  \* self.movie_nodes, or JNull
    movie_ids,    \* self.movie_ids, or JNull
    posts,        \* the POST responses received, in order
    schedule      \* what get_schedule returned, or JNull

vars == <<env, pc, error, message, config, driver, running, launches, quitCalls,
          bfail, requests, pending, discovery, candidates, replies, idx,
          probes, movie_data, movie_nodes, movie_ids, posts, schedule>>

browserVars == <<driver, running, launches, quitCalls, bfail, requests, pending,
                 discovery, candidates, replies>>

scraperVars == <<idx, probes, movie_data, movie_nodes, movie_ids, posts, schedule>>

Init ==
    /\ env \in Environments
    /\ pc = "from_env"
    /\ error = NoError
    /\ message = <<>>
    /\ config = JNull
    /\ driver = FALSE
    /\ running = FALSE
    /\ launches = 0
    /\ quitCalls = 0
    /\ bfail = "none"
    /\ requests = <<>>
    /\ pending = <<>>
    /\ discovery = "notcalled"
    /\ candidates = <<>>
    /\ replies = <<>>
    /\ idx = 1
    /\ probes = <<>>
    /\ movie_data = JNull
    /\ movie_nodes = JNull
    /\ movie_ids = JNull
    /\ posts = <<>>
    /\ schedule = JNull

(* ----------------------- TheaterConfig.from_env ----------------------- *)

\* main: onyx_config = TheaterConfig.from_env("env/onyx.env")
FromEnv ==
    /\ pc = "from_env"
    /\ LET missing_vars == MissingVars(env)
       IN  IF missing_vars # <<>>
           THEN /\ error' = Raised("ValueError", "config")
                /\ message' = missing_vars
                /\ pc' = "failed"
                /\ UNCHANGED <<config, discovery>>
           ELSE /\ config' = MakeConfig(env)
                /\ pc' = "launch"
                /\ discovery' = "running"
                /\ UNCHANGED <<error, message>>
    /\ UNCHANGED <<env, driver, running, launches, quitCalls, bfail, requests,
                   pending, candidates, replies>>
    /\ UNCHANGED scraperVars

(* --------------------- browser.get_json_requests ---------------------- *)

\* driver = webdriver.Chrome(service=service, options=options)
\* When the constructor throws, driver keeps its None.
Launch ==
    /\ pc = "launch"
    /\ \/ /\ driver' = TRUE
          /\ running' = TRUE
          /\ launches' = launches + 1
          /\ pc' = "navigate"
          /\ UNCHANGED bfail
       \/ /\ bfail' = "launch"
          /\ pc' = "except"
          /\ UNCHANGED <<driver, running, launches>>
    /\ UNCHANGED <<env, error, message, config, quitCalls, requests, pending,
                   discovery, candidates, replies>>
    /\ UNCHANGED scraperVars

\* driver.get(url)
Navigate ==
    /\ pc = "navigate"
    /\ \/ /\ pc' = "wait"
          /\ UNCHANGED bfail
       \/ /\ bfail' = "navigate"
          /\ pc' = "except"
    /\ UNCHANGED <<env, error, message, config, driver, running, launches,
                   quitCalls, requests, pending, discovery, candidates, replies>>
    /\ UNCHANGED scraperVars

\* wait.until(lambda d: d.find_element(By.TAG_NAME, "iframe")), timeout=20:
\* the iframe shows up, or TimeoutException.
WaitForIframe ==
    /\ pc = "wait"
    /\ \/ /\ pc' = "collect"
          /\ UNCHANGED bfail
       \/ /\ bfail' = "wait"
          /\ pc' = "except"
    /\ UNCHANGED <<env, error, message, config, driver, running, launches,
                   quitCalls, requests, pending, discovery, candidates, replies>>
    /\ UNCHANGED scraperVars

\* The loop over driver.requests and "return endpoints": the return value is
\* set, the finally block runs next.
Collect ==
    /\ pc = "collect"
    /\ \E reqs \in ObservedRequests :
          /\ requests' = reqs
          /\ pending' = JsonEndpoints(reqs)
    /\ pc' = "finally"
    /\ UNCHANGED <<env, error, message, config, driver, running, launches,
                   quitCalls, bfail, discovery, candidates, replies>>
    /\ UNCHANGED scraperVars

\* except Exception as e: print(...); return []
Except ==
    /\ pc = "except"
    /\ pending' = <<>>
    /\ pc' = "finally"
    /\ UNCHANGED <<env, error, message, config, driver, running, launches,
                   quitCalls, bfail, requests, discovery, candidates, replies>>
    /\ UNCHANGED scraperVars

\* A teardown that runs on the success path only.
ShouldQuitOnSuccessOnly == driver /\ bfail = "none"

\* finally: if driver:
ShouldQuit == driver

\* finally: if driver: driver.quit().  When quit() throws, its exception
\* replaces the pending return value and leaves the function; whether the
\* browser process is gone then is not known.  Otherwise the function returns
\* the pending value and _fetch_movie_data starts its loop over it.
ReturnPending ==
    /\ candidates' = pending
    /\ replies' \in [1..Len(pending) -> GetResponses]
    /\ discovery' = "returned"
    /\ pc' = "search"

Finally ==
    /\ pc = "finally"
    /\ \/ /\ ShouldQuit
          /\ quitCalls' = quitCalls + 1
          /\ \/ /\ running' = FALSE
                /\ ReturnPending
                /\ UNCHANGED <<bfail, error>>
             \/ /\ running' \in BOOLEAN
                /\ bfail' = "teardown"
                /\ discovery' = "raised"
                /\ error' = Raised("WebDriverException", "discovery")
                /\ pc' = "failed"
                /\ UNCHANGED <<candidates, replies>>
       \/ /\ ~ShouldQuit
          /\ ReturnPending
          /\ UNCHANGED <<quitCalls, running, bfail, error>>
    /\ UNCHANGED <<env, message, config, driver, launches, requests, pending>>
    /\ UNCHANGED scraperVars

(* ----------------- TheaterScraper._fetch_movie_data ------------------- *)

\* The for loop has no candidate left:
\* raise ValueError("Could not find API endpointing containing the 'allMovie' key")
Exhausted ==
    /\ pc = "search"
    /\ idx > Len(candidates)
    /\ error' = Raised("ValueError", "catalog-not-found")
    /\ pc' = "failed"
    /\ UNCHANGED <<env, message, config, idx, probes, movie_data, movie_nodes,
                   movie_ids, posts, schedule>>
    /\ UNCHANGED browserVars

\* One iteration of the loop: GET the candidate, raise_for_status, look for
\* the marker.
Probe ==
    /\ pc = "search"
    /\ idx <= Len(candidates)
    /\ LET endpoint == candidates[idx]
           r        == replies[idx]
           data     == DictGet(r.body, "data", JDict({}))
       IN  /\ probes' = Append(probes, <<endpoint, r>>)
           /\ IF TransportFailure(r)
              THEN \* except RequestException: raise RequestException(...)
                   /\ error' = Raised("RequestException", "catalog")
                   /\ pc' = "failed"
                   /\ UNCHANGED <<idx, movie_data>>
              ELSE IF data = JNull
              THEN \* "allMovie" in None
                   /\ error' = Raised("TypeError", "catalog")
                   /\ pc' = "failed"
                   /\ UNCHANGED <<idx, movie_data>>
              ELSE IF HasMarker(data)
              THEN \* return (endpoint, movie_data)
                   /\ movie_data' = MovieData(endpoint, Item(data, "allMovie"))
                   /\ pc' = "nodes"
                   /\ UNCHANGED <<idx, error>>
              ELSE /\ idx' = idx + 1
                   /\ UNCHANGED <<pc, error, movie_data>>
    /\ UNCHANGED <<env, message, config, movie_nodes, movie_ids, posts, schedule>>
    /\ UNCHANGED browserVars

(* --------------- _get_movie_nodes and _get_movie_ids ------------------ *)

\* _, data = self.movie_data; nodes = data["nodes"]
GetMovieNodes ==
    /\ pc = "nodes"
    /\ LET data == movie_data.data
       IN  IF HasKey(data, "nodes")
           THEN /\ movie_nodes' = Item(data, "nodes")
                /\ pc' = "ids"
                /\ UNCHANGED error
           ELSE /\ error' = Raised("KeyError", "nodes")
                /\ pc' = "failed"
                /\ UNCHANGED movie_nodes
    /\ UNCHANGED <<env, message, config, idx, probes, movie_data, movie_ids,
                   posts, schedule>>
    /\ UNCHANGED browserVars

\* ids = [node.get("id") for node in self.movie_nodes]
GetMovieIds ==
    /\ pc = "ids"
    /\ movie_ids' = JList([i \in 1..Len(movie_nodes.elems) |->
                                DictGet(movie_nodes.elems[i], "id", JNull)])
    /\ pc' = "schedule"
    /\ UNCHANGED <<env, error, message, config, idx, probes, movie_data,
                   movie_nodes, posts, schedule>>
    /\ UNCHANGED browserVars

(* -------------------- TheaterScraper.get_schedule --------------------- *)

\* A handler that sends the POST again.
RetryPost ==
    /\ pc' = "schedule"
    /\ UNCHANGED error

\* except RequestException as e: raise RequestException(...)
PropagatePostFailure ==
    /\ error' = Raised("RequestException", "schedule")
    /\ pc' = "failed"

\* main: schedule = onyx_scraper.get_schedule()
GetSchedule ==
    /\ pc = "schedule"
    /\ Len(posts) < MaxPosts
    /\ \E r \in PostResponses(config.theater_id) :
          /\ posts' = Append(posts, r)
          /\ IF TransportFailure(r)
             THEN /\ PropagatePostFailure
                  /\ UNCHANGED schedule
             ELSE LET entry == DictGet(r.body, config.theater_id, JDict({}))
                  IN  IF entry = JNull
                      THEN \* None.get("schedule")
                           /\ error' = Raised("AttributeError", "schedule")
                           /\ pc' = "failed"
                           /\ UNCHANGED schedule
                      ELSE IF DictGet(entry, "schedule", JNull) = JNull
                      THEN /\ error' = Raised("ValueError", "schedule-not-found")
                           /\ pc' = "failed"
                           /\ UNCHANGED schedule
                      ELSE /\ schedule' = Item(entry, "schedule")
                           /\ pc' = "done"
                           /\ UNCHANGED error
    /\ UNCHANGED <<env, message, config, idx, probes, movie_data, movie_nodes,
                   movie_ids>>
    /\ UNCHANGED browserVars

(* --------------------------- specification ---------------------------- *)

Next ==
    \/ FromEnv
    \/ Launch
    \/ Navigate
    \/ WaitForIframe
    \/ Collect
    \/ Except
    \/ Finally
    \/ Probe
    \/ Exhausted
    \/ GetMovieNodes
    \/ GetMovieIds
    \/ GetSchedule

Spec == Init /\ [][Next]_vars

(* ------------------------- claims: vocabulary ------------------------- *)

\* A response with a 2xx status.
Is2xx(r) == r.kind = "http" /\ r.status >= 200 /\ r.status < 300

\* The body carries a non-null data.allMovie.
BodyHasCatalog(b) ==
    /\ \E p \in b.items : p[1] = "data" /\ p[2].type = "dict"
    /\ \E p \in b.items : p[1] = "data" /\ p[2].type = "dict"
          /\ \E q \in p[2].items : q[1] = "allMovie" /\ q[2] # JNull

\* The value under data.allMovie of such a body.
CatalogOf(b) ==
    LET d == (CHOOSE p \in b.items : p[1] = "data")[2]
    IN  (CHOOSE q \in d.items : q[1] = "allMovie")[2]

\* The candidate's answer satisfies the marker predicate.
Matching(r) == Is2xx(r) /\ BodyHasCatalog(r.body)

\* The positions of the candidates whose answer satisfies the marker predicate.
MatchingPositions == {i \in 1..Len(candidates) : Matching(replies[i])}

FirstMatching == CHOOSE i \in MatchingPositions : \A j \in MatchingPositions : i <= j

\* get_json_requests has returned and _fetch_movie_data has left its loop.
SearchOver == discovery = "returned" /\ pc # "search"

\* get_schedule has been called and has left, by return or by exception.
GetScheduleOver ==
    \/ pc = "done"
    \/ pc = "failed" /\ error.stage \in {"schedule", "schedule-not-found"}

(* ------------------------------- claims ------------------------------- *)

\* C1: once the search is over, if some candidate's response body has a
\* non-null data.allMovie, the result is the first such candidate in list
\* order together with that value, and no candidate after it was sent a GET.
C1_FirstMatchReturned ==
    (SearchOver /\ MatchingPositions # {}) =>
        /\ movie_data = MovieData(candidates[FirstMatching],
                                  CatalogOf(replies[FirstMatching].body))
        /\ Len(probes) = FirstMatching

\* C2: a candidate whose GET gives a non-2xx response or a network error is
\* that candidate's failure only: it never ends the run, the loop goes on to
\* the next candidate, and a later matching candidate is still accepted.
C2_TransportFailureSkipped ==
    \A i \in 1..Len(probes) :
        ~Is2xx(probes[i][2]) =>
            /\ ~(pc = "failed" /\ i = Len(probes) /\ error.stage = "catalog")
            /\ (SearchOver /\ \E j \in MatchingPositions : j > i) => movie_data # JNull

\* C3: when no candidate matches the marker and the list is exhausted (the
\* empty list included), construction fails with the catalog-not-found
\* ValueError, and nodes, ids and the schedule POST never happen.
C3_ExhaustionRaisesNotFound ==
    (SearchOver /\ MatchingPositions = {}) =>
        /\ pc = "failed"
        /\ error = Raised("ValueError", "catalog-not-found")
        /\ movie_nodes = JNull
        /\ movie_ids = JNull
        /\ posts = <<>>

\* C4: get_json_requests never raises; when the launch, the navigation, the
\* readiness wait or the teardown fails it returns an empty list.
C4_DiscoveryNeverRaises ==
    /\ discovery # "raised"
    /\ (bfail # "none" /\ pc \notin {"except", "finally"}) =>
           (discovery = "returned" /\ candidates = <<>>)

\* C5: on every exit of get_json_requests, by return or by exception, quit()
\* has been called on every browser it launched, and no return leaves a
\* browser process running.
C5_BrowserAlwaysQuit ==
    /\ discovery \in {"returned", "raised"} => quitCalls = launches
    /\ discovery = "returned" => ~running

\* C5 witness: the readiness wait timed out after a launch, and the call has
\* returned with the browser quit.
C5_Witness ==
    /\ discovery = "returned"
    /\ bfail = "wait"
    /\ launches = 1
    /\ quitCalls = 1
    /\ ~running

\* body[tid]["schedule"] resolves to a non-null value.
ScheduleResolves(b, tid) ==
    \E p \in b.items :
        /\ p[1] = tid
        /\ p[2].type = "dict"
        /\ \E q \in p[2].items : q[1] = "schedule" /\ q[2] # JNull

\* C6: every 2xx schedule response whose body does not resolve
\* body[theaterId]["schedule"] to a non-null value fails with the
\* shape-mismatch ValueError, never with the transport RequestException or
\* anything else; a body that resolves is returned verbatim.
C6_ShapeMismatchIsValueError ==
    (GetScheduleOver /\ posts # <<>> /\ Is2xx(posts[Len(posts)])) =>
        LET b   == posts[Len(posts)].body
            tid == config.theater_id
        IN  IF ScheduleResolves(b, tid)
            THEN /\ pc = "done"
                 /\ \E p \in b.items : p[1] = tid /\
                       \E q \in p[2].items : q[1] = "schedule" /\ schedule = q[2]
            ELSE /\ pc = "failed"
                 /\ error = Raised("ValueError", "schedule-not-found")

\* The URL, query string and fragment included, ends in the five characters
\* ".json".
UrlEndsInDotJson(u) ==
    /\ Len(u) >= 5
    /\ u[Len(u) - 4] = "."
    /\ u[Len(u) - 3] = "j"
    /\ u[Len(u) - 2] = "s"
    /\ u[Len(u) - 1] = "o"
    /\ u[Len(u)] = "n"

\* The discovery succeeded: nothing threw and the call returned.
DiscoverySucceeded == discovery = "returned" /\ bfail = "none"

\* C7, as stated: a successful discovery returns the observed requests whose
\* URL path component ends in ".json", in the order observed.
C7_PathEndsInJson ==
    DiscoverySucceeded => candidates = SelectSeq(requests, PathEndsWithJson)

\* C7, amended: a successful discovery returns the observed requests whose
\* whole URL ends in ".json", in the order observed; /c.json?v=1 is left out
\* and /e?f=x.json is kept.
C7_UrlEndsInJson ==
    DiscoverySucceeded => candidates = SelectSeq(requests, UrlEndsInDotJson)

\* C7 witness: the three kinds of URL were observed and the call returned
\* the two whose URL ends in ".json".
C7_Witness ==
    /\ DiscoverySucceeded
    /\ requests = <<UrlQuery, UrlInQuery, UrlPlain>>
    /\ candidates = <<UrlInQuery, UrlPlain>>

\* The required keys the environment does not hold.
AbsentKeys == {k \in RequiredSet : \A p \in env : p[1] # k}

\* The error message names key k.
Named(k) == \E i \in 1..Len(message) : message[i] = k

\* C8: when some required key is absent, from_env raises one ValueError
\* whose message names every absent key, before any browser or network
\* activity; a config exists only when all four keys are present.
C8_AllMissingKeysNamed ==
    /\ (pc # "from_env" /\ AbsentKeys # {}) =>
           /\ pc = "failed"
           /\ error = Raised("ValueError", "config")
           /\ \A k \in AbsentKeys : Named(k)
           /\ launches = 0
           /\ probes = <<>>
           /\ posts = <<>>
    /\ config # JNull => AbsentKeys = {}

\* C8 witness: two keys are absent and the error names both.
C8_Witness ==
    /\ pc = "failed"
    /\ AbsentKeys = {"WEBSITE_ID", "SCHEDULE_ENDPOINT"}
    /\ message = <<"WEBSITE_ID", "SCHEDULE_ENDPOINT">>

\* C9: a get_schedule call sends exactly one POST; a non-2xx response or a
\* network error ends the run at once with the transport error and no
\* second POST; no POST is sent before a catalog endpoint was accepted.
C9_OnePostNoRetry ==
    /\ Len(posts) <= 1
    /\ GetScheduleOver => Len(posts) = 1
    /\ \A i \in 1..Len(posts) :
           TransportFailure(posts[i]) =>
               /\ pc = "failed"
               /\ error = Raised("RequestException", "schedule")
               /\ schedule = JNull
    /\ posts # <<>> => movie_data # JNull

\* C9 witness: the one POST came back non-2xx and the run has failed.
C9_Witness ==
    /\ pc = "failed"
    /\ error = Raised("RequestException", "schedule")
    /\ Len(posts) = 1
    /\ posts[1].kind = "http"

\* C10: a candidate whose GET is 2xx but whose body has no non-null marker
\* (no "data", "data" null, no "allMovie", "allMovie" null) is neither
\* accepted nor the cause of a failure: the search moves on to the next
\* candidate, or ends with catalog-not-found when it was the last.
C10_MissingMarkerMovesOn ==
    \A i \in 1..Len(probes) :
        (Is2xx(probes[i][2]) /\ ~BodyHasCatalog(probes[i][2].body)) =>
            \/ i < Len(probes)
            \/ pc = "search" /\ idx = i + 1
            \/ pc = "failed" /\ error = Raised("ValueError", "catalog-not-found")

====
